---- MODULE Spec2Model ----
(***************************************************************************)
(* Model of simulation_vis/src/components/Trip.js: the simulation clock    *)
(* (React state `time`, the requestAnimationFrame loop, the slider) and     *)
(* the per-frame derivations (visible passengers, destination markers,     *)
(* dispatch arcs, occupied arcs) computed from the datasets and the clock. *)
(*                                                                         *)
(* Encoding of JavaScript values.                                          *)
(*  - Time is counted in ticks of one animation step: 0.01*animationSpeed  *)
(*    minutes = 1 tick, so one minute is TicksPerMinute ticks.  Dataset     *)
(*    timestamps are integers in the same unit.                            *)
(*  - NaV is the encoding of a value that is not a number (undefined, a    *)
(*    non-numeric string): typeof v === "number" is v # NaV, and every     *)
(*    relational comparison with it is false, as in JavaScript.            *)
(*  - A route point is a pair <<lon, lat>> or NullPt (a value that is not   *)
(*    an array).  A missing array field and an empty array take the same   *)
(*    branch at every use in Trip.js, so both are the empty sequence.      *)
(*  - A derived coordinate is an exact fraction <<num, den>> in lowest      *)
(*    terms, den > 0.                                                       *)
(*  - A string of digits (the clock text) is the sequence of its digits;   *)
(*    a colour is the triple of its components.                            *)
(*  - The values kept by useMemo between two renders are read from the     *)
(*    previous frame.                                                      *)
(***************************************************************************)
EXTENDS Integers, Sequences, FiniteSets

VARIABLES trip, passengers, time, updates, frame, phase, scheduled, animation_id

vars == <<trip, passengers, time, updates, frame, phase, scheduled, animation_id>>

\* ---------------------------------------------------------------- constants
TicksPerMinute == 200
minTime == 7 * 60 * TicksPerMinute
step == 1
HourWindow == 60 * TicksPerMinute

NaV == -999999
NullPt == <<>>
NoId == 0

IsNumber(v) == v # NaV
IsArray(p) == p # NullPt

\* JavaScript's >= on operands that may not be numbers
GE(a, b) == IsNumber(a) /\ IsNumber(b) /\ a >= b

Min2(a, b) == IF a < b THEN a ELSE b
Max2(a, b) == IF a > b THEN a ELSE b
Abs(n) == IF n < 0 THEN -n ELSE n

RECURSIVE Gcd(_, _)
Gcd(a, b) == IF b = 0 THEN a ELSE Gcd(b, a % b)

\* the fraction n/d (d > 0) in lowest terms
Frac(n, d) == LET g == Gcd(Abs(n), d) IN <<n \div g, d \div g>>

\* a raw route point as a derived position
Exact(p) == <<Frac(p[1], 1), Frac(p[2], 1)>>

\* ------------------------------------------------------------ time window
\* last element of a timestamp array
LastOf(s) == s[Len(s)]

RECURSIVE dataMaxLoop(_, _, _)
dataMaxLoop(arr, i, maxT) ==
  IF i > Len(arr) THEN maxT
  ELSE LET t == arr[i] IN
       IF t.present /\ Len(t.timestamp) > 0
            /\ IsNumber(LastOf(t.timestamp)) /\ LastOf(t.timestamp) > maxT
       THEN dataMaxLoop(arr, i + 1, LastOf(t.timestamp))
       ELSE dataMaxLoop(arr, i + 1, maxT)

dataMaxFromTrips(tr) == IF Len(tr) = 0 THEN 0 ELSE dataMaxLoop(tr, 1, 0)

dataMaxFromPassengers_ignored(ps) == 0

dataMaxFromPassengers(ps) == IF Len(ps) = 0 THEN 0 ELSE dataMaxLoop(ps, 1, 0)

maxTimeOf_noFloor(tr, ps) ==
  Max2(dataMaxFromTrips(tr), dataMaxFromPassengers(ps))

\* (every number of the model is finite, so Number.isFinite holds)
maxTimeOf(tr, ps) ==
  LET candidate == Max2(minTime + HourWindow,
                        Max2(dataMaxFromTrips(tr), dataMaxFromPassengers(ps)))
  IN IF candidate > minTime THEN candidate ELSE minTime + HourWindow

maxTime == maxTimeOf(trip, passengers)

returnAnimationTime_wrapLate(t, mx) == IF t > mx + step THEN minTime ELSE t + step
returnAnimationTime_stuck(t, mx) == IF t > mx THEN t ELSE t + step
returnAnimationTime(t, mx) == IF t > mx THEN minTime ELSE t + step

\* ------------------------------------------------- passenger resolution
\* index of the first trip carrying passenger_id pid, 0 if none (tripByPid)
RECURSIVE tripByPidLoop(_, _, _)
tripByPidLoop(tr, pid, i) ==
  IF i > Len(tr) THEN 0
  ELSE IF tr[i].present /\ tr[i].passenger_id # NoId /\ tr[i].passenger_id = pid
       THEN i
       ELSE tripByPidLoop(tr, pid, i + 1)

tripByPid_lastSeen(tr, pid) ==
  LET S == { i \in 1..Len(tr) : tr[i].present /\ tr[i].passenger_id = pid } IN
  IF pid = NoId \/ S = {} THEN 0 ELSE CHOOSE i \in S : \A j \in S : j <= i
tripByPid(tr, pid) == IF pid = NoId THEN 0 ELSE tripByPidLoop(tr, pid, 1)

\* the pickup coordinate of a passenger event: loc[0], else location, else null
pickupLocOf(p) ==
  IF Len(p.loc) > 0 THEN p.loc[1]
  ELSE IF IsArray(p.location) THEN p.location
  ELSE NullPt

\* the scan of the matched trip's route for the pickup coordinate: the
\* timestamp at the first equal route point when it is a number, else NaV
RECURSIVE routeScan(_, _, _)
routeScan(t, loc, i) ==
  IF i > Len(t.route) THEN NaV
  ELSE IF ~IsArray(t.route[i]) THEN routeScan(t, loc, i + 1)
  ELSE IF t.route[i] = loc
       THEN (IF i <= Len(t.timestamp) /\ IsNumber(t.timestamp[i])
             THEN t.timestamp[i] ELSE NaV)
       ELSE routeScan(t, loc, i + 1)

\* pickup time found in TRIPS for a passenger (NaV: still null after the scan)
pickupFromTrip(tr, p) ==
  LET ti == tripByPid(tr, p.passenger_id)
      loc == pickupLocOf(p)
  IN IF ti # 0 /\ IsArray(loc) THEN routeScan(tr[ti], loc, 1) ELSE NaV

callOf(p) == IF Len(p.timestamp) >= 1 THEN p.timestamp[1] ELSE NaV

resolvePickupTime_waitFirst(tr, p) ==
  LET call == callOf(p)
      fromTrip == pickupFromTrip(tr, p)
  IN IF IsNumber(call) /\ IsNumber(p.wait_min) THEN call + p.wait_min
     ELSE IF IsNumber(fromTrip) THEN fromTrip
     ELSE call

resolvePickupTime(tr, p) ==
  LET call == callOf(p)
      fromTrip == pickupFromTrip(tr, p)
  IN IF IsNumber(fromTrip) THEN fromTrip
     ELSE IF IsNumber(call) /\ IsNumber(p.wait_min) THEN call + p.wait_min
     ELSE call

infoOf(tr, ps, j) ==
  [call |-> callOf(ps[j]),
   pickupTime |-> resolvePickupTime(tr, ps[j]),
   pickupLoc |-> pickupLocOf(ps[j]),
   of |-> j]

\* passengerInfos: one info per non-null passenger, in order (`of` records
\* the passenger's index in the input, for the statements below)
RECURSIVE passengerInfosLoop(_, _, _)
passengerInfosLoop(tr, ps, j) ==
  IF j > Len(ps) THEN <<>>
  ELSE IF ~ps[j].present THEN passengerInfosLoop(tr, ps, j + 1)
  ELSE <<infoOf(tr, ps, j)>> \o passengerInfosLoop(tr, ps, j + 1)

passengerInfos(tr, ps) == IF Len(ps) = 0 THEN <<>> ELSE passengerInfosLoop(tr, ps, 1)

isVisible_beforePickup(info, t) ==
  /\ IsArray(info.pickupLoc)
  /\ IsNumber(info.call)
  /\ IsNumber(info.pickupTime)
  /\ t >= info.call
  /\ t < info.pickupTime

isVisible(info, t) ==
  /\ IsArray(info.pickupLoc)
  /\ IsNumber(info.call)
  /\ IsNumber(info.pickupTime)
  /\ t >= info.call
  /\ t <= info.pickupTime

waitOf(info, t) == info.pickupTime - info.call

RECURSIVE visibleLoop(_, _, _)
visibleLoop(infos, t, j) ==
  IF j > Len(infos) THEN <<>>
  ELSE IF isVisible(infos[j], t)
       THEN <<[location |-> infos[j].pickupLoc, wait |-> waitOf(infos[j], t),
               of |-> infos[j].of]>> \o visibleLoop(infos, t, j + 1)
       ELSE visibleLoop(infos, t, j + 1)

visiblePassengers(infos, t) == visibleLoop(infos, t, 1)

\* ------------------------------------------------------ per-trip layers
\* 0-based array access, as in the source
At(s, i) == s[i + 1]

\* the guard shared by the three trip layers: a trip that is null or whose
\* route or timestamp is missing or has fewer than two elements is skipped
skipTrip(t) == ~t.present \/ Len(t.route) < 2 \/ Len(t.timestamp) < 2

\* the segment search: for (k = 0; k < ts.length - 1; k++) { ... }
RECURSIVE segmentLoop(_, _, _, _)
segmentLoop(ts, t, k, idx) ==
  IF ~(k < Len(ts) - 1) THEN idx
  ELSE IF IsNumber(At(ts, k)) /\ IsNumber(At(ts, k + 1))
            /\ At(ts, k) <= t /\ t < At(ts, k + 1)
       THEN k
       ELSE segmentLoop(ts, t, k + 1,
                        IF GE(t, At(ts, Len(ts) - 1)) THEN Len(ts) - 2 ELSE idx)

segmentIndex_noSearch(ts, t) == 0
segmentIndex(ts, t) == segmentLoop(ts, t, 0, 0)

clampIndex(i, n) == Max2(0, Min2(i, n - 1))

\* the current vehicle position: [threw, pos]; pos is NullPt when the raw
\* point used is not an array, threw when a coordinate of a non-array point
\* is read (TypeError)
currentPosition(rt, ts, t) ==
  LET idx == segmentIndex(ts, t)
      a == At(rt, clampIndex(idx, Len(rt)))
      b == At(rt, clampIndex(idx + 1, Len(rt)))
      t0 == At(ts, clampIndex(idx, Len(ts)))
      t1 == At(ts, clampIndex(idx + 1, Len(ts)))
  IN IF IsNumber(t0) /\ IsNumber(t1) /\ t1 > t0
     THEN IF ~IsArray(a) \/ ~IsArray(b)
          THEN [threw |-> TRUE, pos |-> NullPt]
          ELSE LET d == t1 - t0
                   n == Max2(0, Min2(d, t - t0))
               IN [threw |-> FALSE,
                   pos |-> <<Frac(a[1] * d + (b[1] - a[1]) * n, d),
                             Frac(a[2] * d + (b[2] - a[2]) * n, d)>>]
     ELSE [threw |-> FALSE, pos |-> IF IsArray(a) THEN Exact(a) ELSE NullPt]

\* the time window tests of the three layers (TRUE: the trip is skipped)
outsideDestinationWindow(ts, t) ==
  LET pickupTime == At(ts, 1)
      end == At(ts, Len(ts) - 1)
  IN ~IsNumber(pickupTime) \/ ~IsNumber(end) \/ t < pickupTime \/ t > end

outsideMatchWindow(ts, t) ==
  LET start == At(ts, 0)
      pickupTime == At(ts, 1)
  IN ~IsNumber(start) \/ ~IsNumber(pickupTime) \/ t < start \/ t > pickupTime

outsideOccupiedWindow_exclusiveEnd(ts, t) ==
  LET pickupTime == At(ts, 1)
      dropTime == At(ts, Len(ts) - 1)
  IN ~IsNumber(pickupTime) \/ ~IsNumber(dropTime) \/ t < pickupTime \/ t >= dropTime

outsideOccupiedWindow(ts, t) ==
  LET pickupTime == At(ts, 1)
      dropTime == At(ts, Len(ts) - 1)
  IN ~IsNumber(pickupTime) \/ ~IsNumber(dropTime) \/ t < pickupTime \/ t > dropTime

\* what one trip contributes to each layer: [threw, out], out a sequence of
\* zero or one entries (`of` records the trip's index in the input)
destinationOf(tr, i, t) ==
  LET d == tr[i] IN
  IF skipTrip(d) \/ outsideDestinationWindow(d.timestamp, t)
  THEN [threw |-> FALSE, out |-> <<>>]
  ELSE [threw |-> FALSE,
        out |-> <<[location |-> At(d.route, Len(d.route) - 1), of |-> i]>>]

arcTo(rt, ts, t, target, i) ==
  LET curr == currentPosition(rt, ts, t) IN
  IF curr.threw THEN [threw |-> TRUE, out |-> <<>>]
  ELSE IF IsArray(curr.pos) /\ IsArray(target)
       THEN [threw |-> FALSE,
             out |-> <<[source |-> curr.pos, target |-> target, of |-> i]>>]
       ELSE [threw |-> FALSE, out |-> <<>>]

matchArcOf(tr, i, t) ==
  LET d == tr[i] IN
  IF skipTrip(d) \/ outsideMatchWindow(d.timestamp, t)
  THEN [threw |-> FALSE, out |-> <<>>]
  ELSE arcTo(d.route, d.timestamp, t, At(d.route, 1), i)

occupiedArcOf(tr, i, t) ==
  LET d == tr[i] IN
  IF skipTrip(d) \/ outsideOccupiedWindow(d.timestamp, t)
  THEN [threw |-> FALSE, out |-> <<>>]
  ELSE arcTo(d.route, d.timestamp, t, At(d.route, Len(d.route) - 1), i)

layerEntry(layer, tr, i, t) ==
  CASE layer = "destinations" -> destinationOf(tr, i, t)
    [] layer = "match-arcs" -> matchArcOf(tr, i, t)
    [] layer = "occupied-arcs" -> occupiedArcOf(tr, i, t)

\* the loop of a layer over the trips: the first throw aborts the render
RECURSIVE layerLoop(_, _, _, _)
layerLoop(layer, tr, t, i) ==
  IF i > Len(tr) THEN [threw |-> FALSE, out |-> <<>>]
  ELSE LET one == layerEntry(layer, tr, i, t) IN
       IF one.threw THEN [threw |-> TRUE, out |-> <<>>]
       ELSE LET rest == layerLoop(layer, tr, t, i + 1) IN
            IF rest.threw THEN rest
            ELSE [threw |-> FALSE, out |-> one.out \o rest.out]

destinations(tr, t) == layerLoop("destinations", tr, t, 1)
matchArcs(tr, t) == layerLoop("match-arcs", tr, t, 1)
occupiedArcs(tr, t) == layerLoop("occupied-arcs", tr, t, 1)

\* ------------------------------------------------- colour and clock text
\* the fill colour of a waiting passenger; wait || 0 turns a missing value
\* and 0 into 0, Math.max(0, .) a negative one; the limits are minutes
waitToColor_inclusive(wait) ==
  LET w == Max2(0, IF IsNumber(wait) THEN wait ELSE 0) IN
  IF w <= 15 * TicksPerMinute THEN <<255, 255, 255>>
  ELSE IF w <= 30 * TicksPerMinute THEN <<255, 230, 230>>
  ELSE IF w <= 45 * TicksPerMinute THEN <<255, 190, 190>>
  ELSE IF w <= 60 * TicksPerMinute THEN <<255, 140, 140>>
  ELSE <<200, 0, 0>>

waitToColor(wait) ==
  LET w == Max2(0, IF IsNumber(wait) /\ wait # 0 THEN wait ELSE 0) IN
  IF w < 15 * TicksPerMinute THEN <<255, 255, 255>>
  ELSE IF w < 30 * TicksPerMinute THEN <<255, 230, 230>>
  ELSE IF w < 45 * TicksPerMinute THEN <<255, 190, 190>>
  ELSE IF w < 60 * TicksPerMinute THEN <<255, 140, 140>>
  ELSE <<200, 0, 0>>

\* value.toString() of an integer: its decimal digits, most significant
\* first, after MinusSign for a negative one
MinusSign == 0 - 1

RECURSIVE digitsOf(_)
digitsOf(n) == IF n < 10 THEN <<n>> ELSE Append(digitsOf(n \div 10), n % 10)

toString(value) ==
  IF value < 0 THEN <<MinusSign>> \o digitsOf(0 - value) ELSE digitsOf(value)

addZeroFill(value) ==
  LET valueString == toString(value) IN
  IF Len(valueString) < 2 THEN <<0>> \o valueString ELSE valueString

\* Math.round of a time in minutes held in ticks: the nearest whole minute,
\* a half rounded up
MathRound(t) == (2 * t + TicksPerMinute) \div (2 * TicksPerMinute)

\* a % b and parseInt(a / b) of JavaScript for integers a and b > 0
\* (the sign of a is kept, the quotient is cut towards zero)
jsRem(a, b) == IF a >= 0 THEN a % b ELSE 0 - ((0 - a) % b)
jsQuot(a, b) == IF a >= 0 THEN a \div b ELSE 0 - ((0 - a) \div b)

\* the text of the clock: <<hour, minute>>, each a string of digits
returnAnimationDisplayTime_floorHour(t) ==
  <<addZeroFill(jsRem(jsQuot(t, 60 * TicksPerMinute), 24)),
    addZeroFill(jsRem(MathRound(t), 60))>>

returnAnimationDisplayTime(t) ==
  LET hour == addZeroFill(jsRem(jsQuot(MathRound(t), 60), 24))
      minute == addZeroFill(jsRem(MathRound(t), 60))
  IN <<hour, minute>>

\* getFillColor: (d) => waitToColor(d.wait), on every datum of the layer
getFillColor(data) == [n \in 1..Len(data) |-> waitToColor(data[n].wait)]

\* --------------------------------------------------------------- a frame
\* one render of the component at clock value t: the data of every layer,
\* or threw when the render raised
\* (currentTime is the prop of the trips layer, fillColors the colours of
\* the passengers layer, display the clock text, min, max, value the props
\* of the Slider)
NoFrame ==
  [rendered |-> FALSE, threw |-> FALSE, t |-> 0, passengerInfos |-> <<>>,
   visiblePassengers |-> <<>>, destinations |-> <<>>, matchArcs |-> <<>>,
   occupiedArcs |-> <<>>, min |-> 0, max |-> 0, value |-> 0,
   currentTime |-> 0, fillColors |-> <<>>, display |-> <<>>]

\* useMemo(..., [passengers, trip]): the datasets of a mounted component are
\* never replaced, so the value of the previous render is kept
usePassengerInfos(prev, tr, ps) ==
  IF prev.rendered /\ ~prev.threw THEN prev.passengerInfos
  ELSE passengerInfos(tr, ps)

\* useMemo(..., [passengerInfos, time]): recomputed when a dependency differs
\* from the one of the previous render
visibleDepsChanged_timeOmitted(prev, infos, t) == prev.passengerInfos # infos
visibleDepsChanged(prev, infos, t) == prev.passengerInfos # infos \/ prev.t # t

useVisiblePassengers(prev, infos, t) ==
  IF prev.rendered /\ ~prev.threw /\ ~visibleDepsChanged(prev, infos, t)
  THEN prev.visiblePassengers
  ELSE visiblePassengers(infos, t)

deriveFrame(prev, tr, ps, t) ==
  LET infos == usePassengerInfos(prev, tr, ps)
      vis == useVisiblePassengers(prev, infos, t)
      dst == destinations(tr, t)
      mat == matchArcs(tr, t)
      occ == occupiedArcs(tr, t)
  IN IF mat.threw \/ occ.threw
     THEN [NoFrame EXCEPT !.rendered = TRUE, !.threw = TRUE, !.t = t]
     ELSE [rendered |-> TRUE, threw |-> FALSE, t |-> t,
           passengerInfos |-> infos,
           visiblePassengers |-> vis, destinations |-> dst.out,
           matchArcs |-> mat.out, occupiedArcs |-> occ.out,
           min |-> minTime, max |-> maxTimeOf(tr, ps), value |-> t,
           currentTime |-> t,
           fillColors |-> getFillColor(vis),
           display |-> returnAnimationDisplayTime(t)]

\* the render of the component after the frame prev
renderFrame_torn(prev, tr, ps, t) ==
  LET f == deriveFrame(prev, tr, ps, t) IN
  IF prev.rendered /\ ~f.threw
  THEN [f EXCEPT !.destinations = destinations(tr, prev.t).out]
  ELSE f

renderFrame(prev, tr, ps, t) == deriveFrame(prev, tr, ps, t)

\* ------------------------------------------------------------ input data
Trip(pid, rt, ts) == [present |-> TRUE, passenger_id |-> pid, route |-> rt, timestamp |-> ts]
NullTrip == [present |-> FALSE, passenger_id |-> NoId, route |-> <<>>, timestamp |-> <<>>]

Passenger(pid, ts, loc, location, w) ==
  [present |-> TRUE, passenger_id |-> pid, timestamp |-> ts, loc |-> loc,
   location |-> location, wait_min |-> w]
NullPassenger ==
  [present |-> FALSE, passenger_id |-> NoId, timestamp |-> <<>>, loc |-> <<>>,
   location |-> NullPt, wait_min |-> NaV]

Minutes(m) == m * TicksPerMinute

\* the trips the derivations are applied to: well formed, with a zero-length
\* segment, two points only, duplicates of a passenger_id, and degraded
\* records (null, short, missing timestamp, a non-numeric timestamp, a
\* route point that is not an array, late drop-off), and a stop between two
\* moves (a repeated timestamp inside the trip)
TripPool ==
  { Trip(1, << <<0, 0>>, <<1, 1>>, <<2, 2>> >>, <<0, 10, 20>>),
    Trip(1, << <<4, 4>>, <<1, 1>>, <<6, 2>> >>, <<5, 15, 25>>),
    Trip(2, << <<0, 0>>, <<3, 1>>, <<5, 5>> >>, <<0, 10, 10>>),
    Trip(3, << <<0, 0>>, <<2, 4>> >>, <<0, 20>>),
    Trip(1, << <<1, 1>> >>, <<7>>),
    NullTrip,
    Trip(5, << <<0, 0>>, <<1, 1>>, <<2, 2>> >>, <<>>),
    Trip(7, << <<0, 0>>, <<1, 1>>, <<5, 5>>, <<5, 5>> >>, <<0, 10, NaV, 20>>),
    Trip(8, << <<0, 0>>, <<1, 1>>, <<2, 2>>, NullPt >>, <<0, 10, 20, 25>>),
    Trip(9, << <<0, 0>>, <<2, 1>>, <<3, 3>>, <<6, 4>> >>, <<0, 10, 10, 20>>),
    Trip(NoId, << <<0, 0>>, <<1, 1>> >>, <<minTime, minTime + Minutes(10)>>),
    Trip(NoId, << <<0, 0>>, <<1, 1>>, <<2, 2>> >>,
         <<minTime, minTime + Minutes(10), minTime + Minutes(500)>>) }

PassengerPool ==
  { Passenger(1, <<5>>, << <<1, 1>> >>, NullPt, 10),
    Passenger(1, <<5>>, << <<9, 9>> >>, NullPt, 15),
    Passenger(2, <<0>>, <<>>, <<3, 1>>, NaV),
    Passenger(7, <<5>>, << <<5, 5>> >>, NullPt, 10),
    Passenger(1, <<>>, << <<1, 1>> >>, NullPt, 10),
    Passenger(3, <<10>>, <<>>, NullPt, 5),
    Passenger(NoId, <<0, 10, minTime + Minutes(100)>>, << <<2, 2>> >>, NullPt, 10),
    NullPassenger }

MaxTrips == 2
MaxPassengers == 1

SeqsUpTo(S, n) == UNION { [1..k -> S] : k \in 0..n }

TimeSamples == {-5, 0, 5, 10, 15, 20, 25, 30}

\* the datasets the running clock is applied to
ClockTrips ==
  { << Trip(1, << <<0, 0>>, <<1, 1>>, <<2, 2>> >>,
            <<minTime + 2, minTime + 4, minTime + 6>>) >>,
    << Trip(1, << <<0, 0>>, <<1, 1>>, <<2, 2>> >>,
            <<minTime + 2, minTime + 4, minTime + HourWindow + 2>>) >> }

ClockPassengers ==
  { << Passenger(1, <<minTime + 1>>, << <<1, 1>> >>, NullPt, 2) >> }

\* ------------------------------------------------------- the update queue
\* pending setTime calls, applied in order at the next render
RECURSIVE applyUpdates(_, _, _)
applyUpdates(t, q, mx) ==
  IF q = <<>> THEN t
  ELSE LET u == Head(q) IN
       applyUpdates(IF u.kind = "set" THEN u.v ELSE returnAnimationTime(t, mx),
                    Tail(q), mx)

\* the value of the clock once the pending updates are applied
clock == applyUpdates(time, updates, maxTime)

MaxPending == 2

\* what animate passes to setTime: the updater (time) => returnAnimationTime(time)
\* (`by` records the caller, for the statements below)
animateUpdate_stale(t, mx) ==
  [kind |-> "set", v |-> returnAnimationTime(t, mx), by |-> "animate"]
animateUpdate(t, mx) == [kind |-> "fn", v |-> 0, by |-> "animate"]

\* what SliderChange passes to setTime: the value
sliderUpdate(v) == [kind |-> "set", v |-> v, by |-> "slider"]

\* ------------------------------------------------ animation frame handles
\* Handles of requestAnimationFrame are positive and increasing; 0 stands
\* for the undefined animation.id.  Only equality and order of the handles
\* still referenced matter, so after every step they are renumbered 1..n
\* in order.
live(sched, id) == sched \cup (IF id = 0 THEN {} ELSE {id})
rank(L, h) == IF h = 0 THEN 0 ELSE Cardinality({x \in L : x <= h})
SetMax(S) == IF S = {} THEN 0 ELSE CHOOSE x \in S : \A y \in S : y <= x
requestAnimationFrame(sched, id) == SetMax(live(sched, id)) + 1
cancelAnimationFrame(sched, id) == sched \ {id}

\* animation.id = window.requestAnimationFrame(animate) inside animate
storeId_dropped(old, new) == old
storeId(old, new) == new

\* the handle the effect's cleanup cancels
cleanupTarget(id) == id

Renumbered(sched, id) ==
  /\ scheduled' = { rank(live(sched, id), h) : h \in sched }
  /\ animation_id' = rank(live(sched, id), id)

\* ---------------------------------------------------------------- actions
\* phase: "constructed" (state initialised, nothing rendered), "mounted"
\* (rendered, effect not yet run), "running" (effect run, loop scheduled),
\* "unmounted"
SeekValues == {minTime + TicksPerMinute, maxTime}

Init ==
  /\ trip \in ClockTrips
  /\ passengers \in ClockPassengers
  /\ time = minTime
  /\ updates = <<>>
  /\ frame = NoFrame
  /\ phase = "constructed"
  /\ scheduled = {}
  /\ animation_id = 0

\* a render of Trip: the pending setTime calls are applied in order and every
\* layer is derived from the resulting time; a render that raises unmounts
\* the component
Render ==
  /\ phase \in {"constructed", "mounted", "running"}
  /\ updates # <<>> \/ ~frame.rendered
  /\ time' = clock
  /\ updates' = <<>>
  /\ frame' = renderFrame(frame, trip, passengers, time')
  /\ IF frame'.threw
     THEN /\ phase' = "unmounted"
          /\ IF phase = "running"
             THEN Renumbered(cancelAnimationFrame(scheduled, cleanupTarget(animation_id)),
                             animation_id)
             ELSE UNCHANGED <<scheduled, animation_id>>
     ELSE /\ phase' = (IF phase = "constructed" THEN "mounted" ELSE phase)
          /\ UNCHANGED <<scheduled, animation_id>>
  /\ UNCHANGED <<trip, passengers>>

\* useEffect: animation.id = window.requestAnimationFrame(animate)
EffectMount ==
  /\ phase = "mounted"
  /\ phase' = "running"
  /\ LET new == requestAnimationFrame(scheduled, animation_id)
     IN Renumbered(scheduled \cup {new}, new)
  /\ UNCHANGED <<trip, passengers, time, updates, frame>>

\* an animation frame callback fires: animate
Animate ==
  \E h \in scheduled :
    /\ phase = "running" => Len(updates) < MaxPending
    /\ updates' = (IF phase = "running"
                   THEN Append(updates, animateUpdate(time, maxTime))
                   ELSE updates)
    /\ LET rest == scheduled \ {h}
           new == requestAnimationFrame(scheduled, animation_id)
       IN Renumbered(rest \cup {new}, storeId(animation_id, new))
    /\ UNCHANGED <<trip, passengers, time, frame, phase>>

\* the slider's onChange
SliderChange(v) ==
  /\ phase \in {"mounted", "running"}
  /\ Len(updates) < MaxPending
  /\ updates' = Append(updates, sliderUpdate(v))
  /\ UNCHANGED <<trip, passengers, time, frame, phase, scheduled, animation_id>>

\* the effect is run again (its dependency animate was replaced, or the
\* development double invocation): cleanup, then the effect
EffectRerun ==
  /\ phase = "running"
  /\ LET kept == cancelAnimationFrame(scheduled, cleanupTarget(animation_id))
         new == requestAnimationFrame(scheduled, animation_id)
     IN Renumbered(kept \cup {new}, new)
  /\ UNCHANGED <<trip, passengers, time, updates, frame, phase>>

\* the component is unmounted: the effect's cleanup; the pending updates
\* of an unmounted component are dropped
Unmount ==
  /\ phase = "running"
  /\ phase' = "unmounted"
  /\ updates' = <<>>
  /\ Renumbered(cancelAnimationFrame(scheduled, cleanupTarget(animation_id)),
                animation_id)
  /\ UNCHANGED <<trip, passengers, time, frame>>

Next ==
  \/ Render
  \/ EffectMount
  \/ Animate
  \/ \E v \in SeekValues : SliderChange(v)
  \/ EffectRerun
  \/ Unmount

Spec == Init /\ [][Next]_vars

\* the mounted component left to itself: no seek, no unmount.  The browser
\* runs every requested animation frame callback, React runs the effect of
\* a mounted component and renders a component with pending updates.
\* Its dataset: a short trip, and a passenger event that ends after the
\* first hour (the end of the clock's range).
LiveTrips ==
  { << Trip(1, << <<0, 0>>, <<1, 1>>, <<2, 2>> >>,
            <<minTime + 2, minTime + 4, minTime + 6>>) >> }

LivePassengers ==
  { << Passenger(1, <<minTime + 1, minTime + HourWindow + 2>>, << <<1, 1>> >>, NullPt, 2) >> }

InitLive ==
  /\ trip \in LiveTrips
  /\ passengers \in LivePassengers
  /\ time = minTime
  /\ updates = <<>>
  /\ frame = NoFrame
  /\ phase = "constructed"
  /\ scheduled = {}
  /\ animation_id = 0

NextLive ==
  \/ Render
  \/ EffectMount
  \/ Animate
  \/ EffectRerun

LiveSpec ==
  /\ InitLive
  /\ [][NextLive]_vars
  /\ WF_vars(Render)
  /\ WF_vars(EffectMount)
  /\ WF_vars(Animate)

\* the derivations alone, on every dataset of the pools and sampled clock
\* values: one render per input
InitFrame ==
  /\ trip \in SeqsUpTo(TripPool, MaxTrips)
  /\ passengers \in SeqsUpTo(PassengerPool, MaxPassengers)
  /\ time \in TimeSamples
  /\ updates = <<>>
  /\ frame = NoFrame
  /\ phase = "constructed"
  /\ scheduled = {}
  /\ animation_id = 0

NextFrame == Render

FrameSpec == InitFrame /\ [][NextFrame]_vars

\* the colour accessor alone, on a passengers layer holding one datum of
\* every sampled wait: a missing wait, negative ones, and around every
\* whole minute up to MaxWaitMinutes the minute and a tenth of a minute less
MaxWaitMinutes == 61

WaitSamples ==
  {NaV} \cup { m * TicksPerMinute - d : m \in (0 - 1)..MaxWaitMinutes,
                                        d \in {0, TicksPerMinute \div 10} }

InitColor ==
  /\ trip = <<>>
  /\ passengers = <<>>
  /\ time = minTime
  /\ updates = <<>>
  /\ \E w \in WaitSamples :
       frame = [NoFrame EXCEPT
                  !.rendered = TRUE, !.t = minTime,
                  !.visiblePassengers = <<[location |-> <<1, 1>>, wait |-> w, of |-> 1]>>]
  /\ phase = "mounted"
  /\ scheduled = {}
  /\ animation_id = 0

\* the passengers layer evaluates its colour accessor on its data
GetFillColor ==
  /\ Len(frame.fillColors) # Len(frame.visiblePassengers)
  /\ frame' = [frame EXCEPT !.fillColors = getFillColor(frame.visiblePassengers)]
  /\ UNCHANGED <<trip, passengers, time, updates, phase, scheduled, animation_id>>

NextColor == GetFillColor

ColorSpec == InitColor /\ [][NextColor]_vars

\* the clock text alone: one render of an empty dataset at every whole
\* minute up to MaxDisplayMinutes (past midnight), at the tick before the
\* half minute that follows it and at that half minute
MaxDisplayMinutes == 1500

DisplaySamples ==
  { m * TicksPerMinute + d : m \in 0..MaxDisplayMinutes,
                             d \in {0, TicksPerMinute \div 2 - 1, TicksPerMinute \div 2} }

InitDisplay ==
  /\ trip = <<>>
  /\ passengers = <<>>
  /\ time \in DisplaySamples
  /\ updates = <<>>
  /\ frame = NoFrame
  /\ phase = "constructed"
  /\ scheduled = {}
  /\ animation_id = 0

NextDisplay == Render

DisplaySpec == InitDisplay /\ [][NextDisplay]_vars

\* ================================================================ claims
\* a trip of the shape of the data model: route and timestamp of the same
\* length >= 2, every route point a coordinate pair, numeric non-decreasing
\* timestamps
WellFormedTrip(d) ==
  /\ d.present
  /\ Len(d.route) >= 2
  /\ Len(d.route) = Len(d.timestamp)
  /\ \A k \in 1..Len(d.route) : IsArray(d.route[k]) /\ IsNumber(d.timestamp[k])
  /\ \A k \in 1..(Len(d.timestamp) - 1) : d.timestamp[k] <= d.timestamp[k + 1]

FrameOk == frame.rendered /\ ~frame.threw

\* the entries of a layer that come from input number i
EntriesOf(layer, i) == { n \in 1..Len(layer) : layer[n].of = i }
Emitted(layer, i) == EntriesOf(layer, i) # {}

\* C1: a well-formed trip has a dispatch arc, targeting route[1], exactly
\* when timestamp[0] <= t < timestamp[1]; it is never in dispatchArcs and
\* occupiedArcs in the same frame
C1_DispatchWindow ==
  FrameOk =>
    \A i \in 1..Len(trip) :
      WellFormedTrip(trip[i]) =>
        LET ts == trip[i].timestamp IN
        /\ Emitted(frame.matchArcs, i) <=> (ts[1] <= frame.t /\ frame.t < ts[2])
        /\ \A n \in EntriesOf(frame.matchArcs, i) :
             frame.matchArcs[n].target = trip[i].route[2]
        /\ ~(Emitted(frame.matchArcs, i) /\ Emitted(frame.occupiedArcs, i))

\* the segment of a non-decreasing timestamp array that holds t >= ts[1]
\* (1-based index of its start; the final segment from timestamp[last] on)
SegmentOf(ts, t) ==
  IF t >= ts[Len(ts)] THEN Len(ts) - 1
  ELSE CHOOSE k \in 1..(Len(ts) - 1) : ts[k] <= t /\ t < ts[k + 1]

\* src is a + (b - a) * (t - t0) / (t1 - t0), or a on a segment of no duration
IsInterpolation(src, a, b, t0, t1, t) ==
  IF t1 > t0
  THEN \A c \in {1, 2} :
         /\ src[c][2] > 0
         /\ src[c][1] * (t1 - t0) = src[c][2] * (a[c] * (t1 - t0) + (b[c] - a[c]) * (t - t0))
  ELSE src = << <<a[1], 1>>, <<a[2], 1>> >>

\* C2: a well-formed trip has an occupied arc exactly when
\* timestamp[1] <= t <= timestamp[last]; its target is route[last] and its
\* source the linear interpolation on the segment holding t; before
\* timestamp[0] and after timestamp[last] the trip emits nothing
C2_OccupiedArc ==
  FrameOk =>
    \A i \in 1..Len(trip) :
      WellFormedTrip(trip[i]) =>
        LET ts == trip[i].timestamp
            rt == trip[i].route
            t == frame.t
            k == SegmentOf(ts, t)
        IN /\ Emitted(frame.occupiedArcs, i) <=> (ts[2] <= t /\ t <= ts[Len(ts)])
           /\ \A n \in EntriesOf(frame.occupiedArcs, i) :
                /\ frame.occupiedArcs[n].target = rt[Len(rt)]
                /\ IsInterpolation(frame.occupiedArcs[n].source,
                                   rt[k], rt[k + 1], ts[k], ts[k + 1], t)
           /\ (t < ts[1] \/ t > ts[Len(ts)]) =>
                /\ ~Emitted(frame.matchArcs, i)
                /\ ~Emitted(frame.occupiedArcs, i)
                /\ ~Emitted(frame.destinations, i)

\* the example of the specification: timestamps [0,10,20] on the diagonal at
\* t = 15 give the source [1.5, 1.5]
C2_Witness ==
  /\ FrameOk
  /\ frame.t = 15
  /\ \E n \in 1..Len(frame.occupiedArcs) :
       /\ WellFormedTrip(trip[frame.occupiedArcs[n].of])
       /\ trip[frame.occupiedArcs[n].of].timestamp = <<0, 10, 20>>
       /\ frame.occupiedArcs[n].source = << <<3, 2>>, <<3, 2>> >>
       /\ frame.occupiedArcs[n].target = <<2, 2>>

\* C3: a passenger info is visible at t exactly when call and pickupTime
\* are numbers, a pickup location exists and call <= t <= pickupTime; its
\* wait is pickupTime - call
C3_VisibleWindow ==
  FrameOk =>
    \A n \in 1..Len(frame.passengerInfos) :
      LET info == frame.passengerInfos[n] IN
      /\ Emitted(frame.visiblePassengers, info.of) <=>
           /\ IsNumber(info.call)
           /\ IsNumber(info.pickupTime)
           /\ IsArray(info.pickupLoc)
           /\ info.call <= frame.t
           /\ frame.t <= info.pickupTime
      /\ \A m \in EntriesOf(frame.visiblePassengers, info.of) :
           /\ frame.visiblePassengers[m].wait = info.pickupTime - info.call
           /\ frame.visiblePassengers[m].location = info.pickupLoc

\* a passenger shown at the very instant of its pickup, after a wait
C3_Witness ==
  /\ FrameOk
  /\ \E n \in 1..Len(frame.passengerInfos) :
       LET info == frame.passengerInfos[n] IN
       /\ Emitted(frame.visiblePassengers, info.of)
       /\ IsNumber(info.call) /\ IsNumber(info.pickupTime)
       /\ info.call < info.pickupTime
       /\ frame.t = info.pickupTime

\* C10: a trip has a destination marker, at route[last], exactly when it has
\* an occupied arc in the same frame
C10_DestinationIffOccupied ==
  FrameOk =>
    \A i \in 1..Len(trip) :
      /\ Emitted(frame.destinations, i) <=> Emitted(frame.occupiedArcs, i)
      /\ \A n \in EntriesOf(frame.destinations, i) :
           frame.destinations[n].location = trip[i].route[Len(trip[i].route)]

\* the first trip of the collection carrying the passenger's id, 0 if none
MatchedTrip(p) ==
  LET S == { i \in 1..Len(trip) :
               trip[i].present /\ p.passenger_id # NoId
               /\ trip[i].passenger_id = p.passenger_id }
  IN IF S = {} THEN 0 ELSE CHOOSE i \in S : \A j \in S : i <= j

\* the route indices of trip ti whose point equals the pickup location
MatchingPoints(ti, loc) ==
  IF ti = 0 \/ ~IsArray(loc) THEN {}
  ELSE { i \in 1..Len(trip[ti].route) : trip[ti].route[i] = loc }

FallbackTime(p, info) ==
  IF IsNumber(info.call) /\ IsNumber(p.wait_min)
  THEN info.call + p.wait_min
  ELSE info.call

\* C4 as stated: when the matched trip has a route point equal to the pickup
\* location, pickupTime is the trip timestamp at that route index; otherwise
\* call + wait_min when both are numbers; otherwise call
C4_FallbackChain ==
  FrameOk =>
    \A n \in 1..Len(frame.passengerInfos) :
      LET info == frame.passengerInfos[n]
          p == passengers[info.of]
          ti == MatchedTrip(p)
          pts == MatchingPoints(ti, info.pickupLoc)
      IN IF pts # {}
         THEN \E i \in pts :
                /\ i <= Len(trip[ti].timestamp)
                /\ info.pickupTime = trip[ti].timestamp[i]
         ELSE info.pickupTime = FallbackTime(p, info)

\* C4 amended: rule (a) applies when the first route point equal to the
\* pickup location has a number as its timestamp, and gives that timestamp;
\* in every other case pickupTime is call + wait_min when both are numbers,
\* otherwise call
C4_FallbackChainNumeric ==
  FrameOk =>
    \A n \in 1..Len(frame.passengerInfos) :
      LET info == frame.passengerInfos[n]
          p == passengers[info.of]
          ti == MatchedTrip(p)
          pts == MatchingPoints(ti, info.pickupLoc)
          first == CHOOSE i \in pts : \A j \in pts : i <= j
      IN IF pts # {} /\ first <= Len(trip[ti].timestamp)
              /\ IsNumber(trip[ti].timestamp[first])
         THEN info.pickupTime = trip[ti].timestamp[first]
         ELSE info.pickupTime = FallbackTime(p, info)

\* a passenger resolved from its trip although call + wait_min exists and
\* differs
C4_Witness ==
  /\ FrameOk
  /\ \E n \in 1..Len(frame.passengerInfos) :
       LET info == frame.passengerInfos[n]
           p == passengers[info.of]
           pts == MatchingPoints(MatchedTrip(p), info.pickupLoc)
       IN /\ pts # {}
          /\ IsNumber(info.call) /\ IsNumber(p.wait_min)
          /\ IsNumber(info.pickupTime)
          /\ info.pickupTime # info.call + p.wait_min

\* the numeric last timestamps of the records of a collection
LastStamps(arr) ==
  { LastOf(arr[i].timestamp) :
      i \in { j \in 1..Len(arr) :
                /\ arr[j].present
                /\ Len(arr[j].timestamp) > 0
                /\ IsNumber(LastOf(arr[j].timestamp)) } }

C9_ValidWindow ==
  FrameOk =>
    /\ frame.min = minTime
    /\ frame.max >= frame.min + HourWindow

\* a dataset of degraded trips only: the default window
C9_Witness ==
  /\ FrameOk
  /\ \E i \in 1..Len(trip) : trip[i].present /\ Len(trip[i].timestamp) = 0
  /\ LastStamps(trip) = {}
  /\ frame.max = minTime + HourWindow

\* the value of the clock before and after the i-th pending update
ValueBefore(i) == applyUpdates(time, SubSeq(updates, 1, i - 1), maxTime)
ValueAfter(i) == applyUpdates(time, SubSeq(updates, 1, i), maxTime)

\* C5: a seek sets the clock to its value, and a tick computes its result
\* from the value the clock has when the tick is applied (the seeked value
\* when a seek precedes it), whatever the interleaving of seeks and ticks
C5_SeekNotLost ==
  \A i \in 1..Len(updates) :
    /\ updates[i].by = "slider" =>
         /\ updates[i].v \in SeekValues
         /\ ValueAfter(i) = updates[i].v
    /\ updates[i].by = "animate" =>
         ValueAfter(i) = (IF ValueBefore(i) > maxTime
                          THEN minTime
                          ELSE ValueBefore(i) + step)

\* a seek followed by a tick before the next render: the seeked value plus
\* one step
C5_Witness ==
  /\ Len(updates) = 2
  /\ updates[1].by = "slider"
  /\ updates[2].by = "animate"
  /\ time # updates[1].v
  /\ clock = updates[1].v + step

\* C6: after a tick the clock is the previous value plus step when that does
\* not exceed max, and exactly min otherwise; no value above max is retained
C6_WrapExactlyToMin ==
  /\ \A i \in 1..Len(updates) :
       updates[i].by = "animate" =>
         ValueAfter(i) = (IF ValueBefore(i) + step <= maxTime
                          THEN ValueBefore(i) + step
                          ELSE minTime)
  /\ time <= maxTime

\* C7: at most one animation frame callback is scheduled, it is the one
\* animation.id names while the loop runs, and none is left after teardown
C7_CleanStop ==
  /\ Cardinality(scheduled) <= 1
  /\ phase = "running" => scheduled = {animation_id}
  /\ phase = "unmounted" => scheduled = {}

\* the component unmounted after its loop had advanced the clock
C7_Witness ==
  /\ phase = "unmounted"
  /\ time > minTime + step
  /\ frame.rendered
  /\ scheduled = {}


\* every arc of input number i starts at the point p
ArcSourcesAre(i, p) ==
  /\ \A n \in EntriesOf(frame.matchArcs, i) : frame.matchArcs[n].source = Exact(p)
  /\ \A n \in EntriesOf(frame.occupiedArcs, i) : frame.occupiedArcs[n].source = Exact(p)

HasNonNumericTimestamp(d) ==
  /\ d.present
  /\ \E k \in 1..Len(d.timestamp) : ~IsNumber(d.timestamp[k])

\* C12: a trip whose timestamp array holds a non-numeric entry has no
\* dispatch arc, no occupied arc and no destination marker, at any t
C12_NonNumericExcluded ==
  FrameOk =>
    \A i \in 1..Len(trip) :
      HasNonNumericTimestamp(trip[i]) =>
        /\ ~Emitted(frame.matchArcs, i)
        /\ ~Emitted(frame.occupiedArcs, i)
        /\ ~Emitted(frame.destinations, i)

\* a null entry, or a route or a timestamp array that is missing or has
\* fewer than 2 elements
Malformed(d) == ~d.present \/ Len(d.route) < 2 \/ Len(d.timestamp) < 2

\* the trip collection without its entry number i
Without(i) == SubSeq(trip, 1, i - 1) \o SubSeq(trip, i + 1, Len(trip))

\* the entries of a layer, whatever the index of the trip they come from
Unindexed(layer) == [n \in 1..Len(layer) |-> [layer[n] EXCEPT !.of = 0]]

\* C13: a malformed trip has no destination marker, dispatch arc or occupied
\* arc, the render does not raise because of it, and every other entry of
\* the frame is what it is when the malformed trip is taken out of the
\* collection
C13_MalformedIgnored ==
  frame.rendered =>
    \A i \in 1..Len(trip) :
      Malformed(trip[i]) =>
        LET other == renderFrame(NoFrame, Without(i), passengers, frame.t) IN
        /\ ~Emitted(frame.destinations, i)
        /\ ~Emitted(frame.matchArcs, i)
        /\ ~Emitted(frame.occupiedArcs, i)
        /\ frame.threw <=> other.threw
        /\ Unindexed(frame.destinations) = Unindexed(other.destinations)
        /\ Unindexed(frame.matchArcs) = Unindexed(other.matchArcs)
        /\ Unindexed(frame.occupiedArcs) = Unindexed(other.occupiedArcs)
        /\ frame.visiblePassengers = other.visiblePassengers

\* the trips of the collection that carry the passenger's id
TripsOf(p) ==
  { i \in 1..Len(trip) :
      trip[i].present /\ p.passenger_id # NoId
      /\ trip[i].passenger_id = p.passenger_id }

\* C14: a passenger whose id is carried by several trips is resolved against
\* the first of them in the order of the collection; taking any later one
\* out of the collection leaves the pickupTime as it is
C14_FirstTripWins ==
  FrameOk =>
    \A n \in 1..Len(frame.passengerInfos) :
      LET info == frame.passengerInfos[n]
          p == passengers[info.of]
      IN TripsOf(p) # {} =>
           /\ info.pickupTime = resolvePickupTime(<<trip[MatchedTrip(p)]>>, p)
           /\ \A j \in TripsOf(p) \ {MatchedTrip(p)} :
                info.pickupTime = resolvePickupTime(Without(j), p)

\* two trips of one passenger pass the pickup point at different times: the
\* time of the first one is taken
C14_Witness ==
  /\ FrameOk
  /\ \E n \in 1..Len(frame.passengerInfos) :
       LET info == frame.passengerInfos[n]
           p == passengers[info.of]
       IN /\ IsNumber(info.call) /\ IsNumber(p.wait_min)
          /\ Cardinality(TripsOf(p)) >= 2
          /\ WellFormedTrip(trip[MatchedTrip(p)])
          /\ \E j \in TripsOf(p) \ {MatchedTrip(p)} :
               LET late == resolvePickupTime(<<trip[j]>>, p) IN
               /\ WellFormedTrip(trip[j])
               /\ MatchingPoints(j, info.pickupLoc) # {}
               /\ late # info.pickupTime
          /\ info.pickupTime = resolvePickupTime(<<trip[MatchedTrip(p)]>>, p)
          /\ MatchingPoints(MatchedTrip(p), info.pickupLoc) # {}

\* the five buckets of a wait, in minutes: [0,15), [15,30), [30,45),
\* [45,60), [60,inf); a negative or missing wait counts as 0
BucketOf(wait) ==
  LET w == IF ~IsNumber(wait) \/ wait < 0 THEN 0 ELSE wait IN
  CHOOSE b \in 1..5 :
    /\ b > 1 => w >= (b - 1) * 15 * TicksPerMinute
    /\ b < 5 => w < b * 15 * TicksPerMinute

BucketColor(b) ==
  CASE b = 1 -> <<255, 255, 255>>
    [] b = 2 -> <<255, 230, 230>>
    [] b = 3 -> <<255, 190, 190>>
    [] b = 4 -> <<255, 140, 140>>
    [] b = 5 -> <<200, 0, 0>>

\* C15: the colour of every datum of the passengers layer is the colour of
\* the bucket of its wait; a limit belongs to the higher bucket, a negative
\* or missing wait to the first
C15_WaitBuckets ==
  \A n \in 1..Len(frame.fillColors) :
    frame.fillColors[n] = BucketColor(BucketOf(frame.visiblePassengers[n].wait))

\* a wait of exactly 60 minutes is coloured as the last bucket
C15_Witness ==
  /\ Len(frame.fillColors) = 1
  /\ frame.visiblePassengers[1].wait = 60 * TicksPerMinute
  /\ frame.fillColors[1] = <<200, 0, 0>>

\* C16: whatever ticks and seeks led the clock to its value, the vehicle
\* trail time, the visible passengers, the destination markers, the dispatch
\* arcs and the occupied arcs of the frame are those of a first render of
\* the datasets at that value
C16_FrameFromClockOnly ==
  FrameOk =>
    LET fresh == renderFrame(NoFrame, trip, passengers, time) IN
    /\ frame.currentTime = fresh.currentTime
    /\ frame.visiblePassengers = fresh.visiblePassengers
    /\ frame.destinations = fresh.destinations
    /\ frame.matchArcs = fresh.matchArcs
    /\ frame.occupiedArcs = fresh.occupiedArcs

\* a later frame of a running clock, with a passenger shown and a trip
\* occupied
C16_Witness ==
  /\ FrameOk
  /\ phase = "running"
  /\ time > minTime
  /\ frame.visiblePassengers # <<>>
  /\ frame.occupiedArcs # <<>>
  /\ frame.destinations # <<>>

\* C17: everything a frame shows is computed from one clock value, the one
\* of the slider: the trail time of the vehicles, the visible passengers,
\* the destination markers, the dispatch arcs, the occupied arcs and the
\* clock text, whatever ticks and seeks are pending
C17_NoTearing ==
  FrameOk =>
    LET t == frame.value IN
    /\ frame.t = t
    /\ frame.currentTime = t
    /\ frame.visiblePassengers = visiblePassengers(frame.passengerInfos, t)
    /\ frame.destinations = destinations(trip, t).out
    /\ frame.matchArcs = matchArcs(trip, t).out
    /\ frame.occupiedArcs = occupiedArcs(trip, t).out
    /\ frame.display = returnAnimationDisplayTime(t)

\* a frame with a trip occupied, while a seek and a tick wait for the next
\* render and will change the clock text
C17_Witness ==
  /\ FrameOk
  /\ frame.occupiedArcs # <<>>
  /\ frame.destinations # <<>>
  /\ \E i, j \in 1..Len(updates) : updates[i].by = "slider" /\ updates[j].by = "animate"
  /\ returnAnimationDisplayTime(clock) # frame.display

\* the two digits of a number below 100
TwoDigits(n) == <<n \div 10, n % 10>>

\* floor(t / 60) and round(t), t a time in minutes held in ticks
FloorHours(t) == t \div (60 * TicksPerMinute)
RoundedMinutes(t) == (t + TicksPerMinute \div 2) \div TicksPerMinute

\* C18: the clock text is the zero-padded pair
\* (floor(t / 60) mod 24, round(t) mod 60), also in the last half minute of
\* an hour
C18_DisplayFloorHour ==
  FrameOk =>
    frame.display = <<TwoDigits(FloorHours(frame.t) % 24),
                      TwoDigits(RoundedMinutes(frame.t) % 60)>>

\* C18, amended: the clock text is the zero-padded pair
\* (floor(round(t) / 60) mod 24, round(t) mod 60)
C18_DisplayRoundedHour ==
  FrameOk =>
    frame.display = <<TwoDigits((RoundedMinutes(frame.t) \div 60) % 24),
                      TwoDigits(RoundedMinutes(frame.t) % 60)>>

\* half a minute before 8 o'clock the clock text is 08 : 00
C18_Witness ==
  /\ FrameOk
  /\ frame.t = 8 * 60 * TicksPerMinute - TicksPerMinute \div 2
  /\ frame.display = << <<0, 8>>, <<0, 0>> >>

InClockRange(t) == minTime <= t /\ t <= maxTime + step

C20_WrapsForever ==
  /\ []<>(clock > maxTime)
  /\ []<>(clock = minTime)
  /\ (clock >= maxTime) ~> (clock = minTime)
  /\ (time >= maxTime) ~> (time < maxTime)

\* the tick that wraps: the clock is above max and the pending tick sends
\* it to min
C20_Witness ==
  /\ phase = "running"
  /\ time > maxTime
  /\ updates # <<>>
  /\ \A i \in 1..Len(updates) : updates[i].by = "animate"
  /\ ValueAfter(1) = minTime

====
